---- MODULE Spec2Model ----
(***************************************************************************)
(* LinearDomainFinder.slidingWindowFind of scripts/where_linear.py as a    *)
(* state machine: one action per statement group of the method, the three  *)
(* loops unrolled one iteration per step.                                  *)
(*                                                                         *)
(* Numbers.  The slopes are numpy float64 values.  They are modelled as    *)
(* exact rationals <<num, den>> in lowest terms with den > 0, extended by  *)
(* the IEEE specials the code can produce: <<1,0>> = +inf, <<-1,0>> = -inf *)
(* and <<0,0>> = NaN.  Rounding is not modelled, and a zero slope is +0.0. *)
(* Arrays are 0-based in the code and 1-based here: At(a, i) is a[i].      *)
(***************************************************************************)
EXTENDS Integers, Sequences, FiniteSets, TLC

VARIABLES
    xdata,          \* self._xdata (meaningful once "x" is not in unset)
    ydata,          \* self._ydata (meaningful once "y" is not in unset)
    unset,          \* which of self._xdata / self._ydata are still None
    self_LLD,       \* self.LLD
    self_slope,     \* self.slope
    pc,             \* position inside slidingWindowFind
    WIN_SIZE,       \* parameter WIN_SIZE
    FDEV_CUT,       \* parameter FDEV_CUT
    N,              \* local N
    slopes,         \* local slopes
    i,              \* loop variable i (shared by the three loops)
    fitted,         \* indices of _xdata handed to the latest np.polyfit call
    currSlope,      \* local currSlope
    currDomainID,   \* local currDomainID
    domainIDs,      \* local domainIDs
    domains,        \* local domains
    currDomain,     \* local currDomain
    LLD,            \* local LLD
    err,            \* the exception that ended the call, "none" if none
    warned          \* the numpy warnings emitted so far

vars == <<xdata, ydata, unset, self_LLD, self_slope, pc, WIN_SIZE, FDEV_CUT, N,
          slopes, i, fitted, currSlope, currDomainID, domainIDs, domains,
          currDomain, LLD, err, warned>>

(***************************************************************************)
(* Bounds of the explored inputs.                                          *)
(***************************************************************************)
\* longest series of the configuration runs (Spec)
MaxN == 4
\* most slopes per series in the slope-value runs (SpecSeg)
MaxSlopes == 4

(***************************************************************************)
(* float64 arithmetic on exact rationals with inf and NaN.                 *)
(***************************************************************************)
Abs(a) == IF a < 0 THEN -a ELSE a

Sign(a) == IF a < 0 THEN -1 ELSE IF a > 0 THEN 1 ELSE 0

Min(a, b) == IF a < b THEN a ELSE b

RECURSIVE GCD(_, _)
GCD(a, b) == IF b = 0 THEN a ELSE GCD(b, a % b)

Rat(n, d) ==
    IF d = 0 THEN <<Sign(n), 0>>
    ELSE LET g == GCD(Abs(n), Abs(d))
             s == IF d < 0 THEN -1 ELSE 1
         IN  <<(s * n) \div g, (s * d) \div g>>

Zero == <<0, 1>>

NaN == <<0, 0>>

IsNaN(a) == a = NaN

IsFinite(a) == a[2] # 0

RNeg(a) == <<-a[1], a[2]>>

RAbs(a) == <<Abs(a[1]), a[2]>>

RSub(a, b) ==
    IF IsFinite(a) /\ IsFinite(b) THEN Rat(a[1] * b[2] - b[1] * a[2], a[2] * b[2])
    ELSE IF IsNaN(a) \/ IsNaN(b) THEN NaN
    ELSE IF ~IsFinite(a) /\ ~IsFinite(b) THEN (IF a = b THEN NaN ELSE a)
    ELSE IF ~IsFinite(a) THEN a
    ELSE RNeg(b)

RMul(a, b) ==
    IF IsNaN(a) \/ IsNaN(b) THEN NaN
    ELSE IF IsFinite(a) /\ IsFinite(b) THEN Rat(a[1] * b[1], a[2] * b[2])
    ELSE <<Sign(a[1]) * Sign(b[1]), 0>>

\* a / b as numpy divides two float64 scalars: x/0 is +-inf, 0/0 is NaN
RDiv(a, b) ==
    IF IsNaN(a) \/ IsNaN(b) THEN NaN
    ELSE IF IsFinite(a) /\ IsFinite(b) THEN Rat(a[1] * b[2], a[2] * b[1])
    ELSE IF ~IsFinite(a) /\ ~IsFinite(b) THEN NaN
    ELSE IF ~IsFinite(a) THEN <<a[1] * (IF b[1] < 0 THEN -1 ELSE 1), 0>>
    ELSE Zero

\* a < b on float64: every comparison with NaN is False
RLess(a, b) ==
    IF IsNaN(a) \/ IsNaN(b) THEN FALSE
    ELSE IF ~IsFinite(a) /\ ~IsFinite(b) THEN a[1] < b[1]
    ELSE a[1] * b[2] < b[1] * a[2]

RLeq(a, b) == ~IsNaN(a) /\ ~IsNaN(b) /\ ~RLess(b, a)

\* the warnings numpy emits for a / b
DivWarnings(a, b) ==
    IF IsFinite(a) /\ IsFinite(b) /\ b[1] = 0
    THEN (IF a[1] = 0 THEN {"invalid value"} ELSE {"divide by zero"})
    ELSE {}

(***************************************************************************)
(* Python sequences.                                                       *)
(***************************************************************************)
At(a, k) == a[k + 1]

\* the indices a[lo:hi] selects from a sequence of length len (lo, hi >= 0)
SliceIdx(len, lo, hi) == {k \in 0 .. (len - 1) : lo <= k /\ k < hi}

\* a[lo:hi] for lo, hi >= 0: clipped to the sequence, never an error
Slice(a, lo, hi) == SubSeq(a, Min(lo, Len(a)) + 1, Min(hi, Len(a)))

Zeros(n) == [k \in 1 .. n |-> Zero]

IntZeros(n) == [k \in 1 .. n |-> 0]

RECURSIVE SumTo(_, _)
SumTo(f, n) == IF n = 0 THEN 0 ELSE f[n] + SumTo(f, n - 1)

(***************************************************************************)
(* np.polyfit(x, y, deg=1)[0]: the set of outcomes of one call.  With at   *)
(* least two distinct x the least-squares slope is unique.  A window whose *)
(* x are all equal (one point included) is rank deficient: numpy scales    *)
(* the columns, returns the minimum-norm solution and warns; when that x   *)
(* is 0 the scaling divides 0 by 0 and the build either raises LinAlgError *)
(* or returns NaN.                                                         *)
(***************************************************************************)
Polyfit(xs, ys) ==
    IF Len(xs) = 0 \/ Len(xs) # Len(ys)
    THEN {[err |-> "TypeError", slope |-> NaN, warn |-> {}]}
    ELSE LET m   == Len(xs)
             Sx  == SumTo(xs, m)
             Sy  == SumTo(ys, m)
             Sxy == SumTo([k \in 1 .. m |-> xs[k] * ys[k]], m)
             Sxx == SumTo([k \in 1 .. m |-> xs[k] * xs[k]], m)
             den == m * Sxx - Sx * Sx
         IN  IF den # 0
             THEN {[err |-> "none", slope |-> Rat(m * Sxy - Sx * Sy, den), warn |-> {}]}
             ELSE IF xs[1] # 0
             THEN {[err |-> "none", slope |-> Rat(Sy, 2 * m * xs[1]),
                    warn |-> {"RankWarning"}]}
             ELSE {[err |-> "LinAlgError", slope |-> NaN, warn |-> {"invalid value"}],
                   [err |-> "none", slope |-> NaN,
                    warn |-> {"invalid value", "RankWarning"}]}

(***************************************************************************)
(* class Domain                                                            *)
(***************************************************************************)
Domain(id, shift, size, slope) ==
    [id |-> id, shift |-> shift, size |-> size, slope |-> slope]

\* the value of self.LLD after construction: the class object itself
DomainClass == [id |-> -1, shift |-> -1, size |-> -1, slope |-> NaN]

\* mutant: the slope tie-break made non-strict
DomainLtOrEqual(self, other) ==
    IF self.size = other.size
    THEN RLeq(self.slope, other.slope)
    ELSE self.size < other.size

DomainLt(self, other) ==
    IF self.size = other.size
    THEN RLess(self.slope, other.slope)
    ELSE self.size < other.size

DomainGt(self, other) ==
    IF self.size = other.size
    THEN RLess(other.slope, self.slope)
    ELSE self.size > other.size

(***************************************************************************)
(* The expressions of slidingWindowFind.                                   *)
(***************************************************************************)
\* mutant: the last window offset dropped
NumShiftsShort(n, W) == n - W

NumShifts(n, W) == n - W + 1

\* mutant: the window end taken as inclusive
WinEndInclusive(WIN_START, W) == WIN_START + W - 1

WinEnd(WIN_START, W) == WIN_START + W

slope_FDEV(s, anchor) == RDiv(RAbs(RSub(s, anchor)), anchor)

\* mutant: the comparison of line 143 turned around
WithinCutInverted(s, anchor, cut) == RLess(cut, slope_FDEV(s, anchor))

WithinCut(s, anchor, cut) == RLess(slope_FDEV(s, anchor), cut)

Extended(d) == [d EXCEPT !.size = d.size + 1]

\* mutant: the offset passed as the id of the new domain
NewDomainIdIsShift(id, k, s) == Domain(k, k, 1, s)

\* mutant: the new domain starts one offset late
NewDomainShifted(id, k, s) == Domain(id, k + 1, 1, s)

NewDomain(id, k, s) == Domain(id, k, 1, s)

Better(best, d) == IF DomainLt(best, d) THEN d ELSE best

\* mutant: the final fit taken over the offsets of the domain only
LLDEndNoWindow(d, W) == d.shift + d.size

LLDEnd(d, W) == d.shift + d.size + W

(***************************************************************************)
(* The inputs explored.  Spec varies the configuration (series lengths,    *)
(* window sizes in and out of range, thresholds of either sign) over small *)
(* data; SpecSeg varies the slope values under window size 2 and unit      *)
(* spacing, where the fitted slopes are the increments of y.               *)
(***************************************************************************)
XStarts == {0, 1}

XSteps == {1, 2}

YVals == {0, 1, 2}

XInputs ==
    {[k \in 1 .. n |-> x0 + (k - 1) * dx] : n \in 0 .. MaxN, x0 \in XStarts, dx \in XSteps}

YInputs == UNION {[1 .. n -> YVals] : n \in 0 .. MaxN}

\* window sizes from 0 to one more than the longest series; negative window
\* sizes (which Python slicing would count from the end) are not explored
WinSizes == 0 .. (MaxN + 1)

Cuts == {<<-1, 2>>, <<0, 1>>, <<1, 2>>, <<2, 1>>}

SlopeVals == {-1, 0, 1, 2, 6}

CumSum(d) == [k \in 1 .. (Len(d) + 1) |-> SumTo(d, k - 1)]

XInputsSeg == {[k \in 1 .. n |-> k - 1] : n \in MaxSlopes .. (MaxSlopes + 1)}

YInputsSeg == {CumSum(d) : d \in UNION {[1 .. n -> SlopeVals] : n \in 1 .. MaxSlopes}}

WinSizesSeg == {2}

CutsSeg == {<<0, 1>>, <<2, 3>>, <<3, 4>>}

(***************************************************************************)
(* LinearDomainFinder.__init__                                             *)
(***************************************************************************)
Init ==
    /\ xdata = <<>>
    /\ ydata = <<>>
    /\ unset = {"x", "y"}
    /\ self_LLD = DomainClass
    /\ self_slope = Zero
    /\ pc = "idle"
    /\ WIN_SIZE = 0
    /\ FDEV_CUT = Zero
    /\ N = 0
    /\ slopes = <<>>
    /\ i = 0
    /\ fitted = {}
    /\ currSlope = Zero
    /\ currDomainID = 0
    /\ domainIDs = <<>>
    /\ domains = <<>>
    /\ currDomain = DomainClass
    /\ LLD = DomainClass
    /\ err = "none"
    /\ warned = {}

fields == <<xdata, ydata, unset>>

results == <<self_LLD, self_slope>>

params == <<WIN_SIZE, FDEV_CUT>>

segvars == <<currSlope, currDomainID, domainIDs, domains, currDomain>>

Raise(e) == pc' = "error" /\ err' = e

(***************************************************************************)
(* setX and setY.  Each is taken once before the call: a second call only  *)
(* overwrites the field, and reaches no state the first cannot.            *)
(***************************************************************************)
setX(data) ==
    /\ pc = "idle"
    /\ "x" \in unset
    /\ xdata' = data
    /\ unset' = unset \ {"x"}
    /\ UNCHANGED <<ydata, results, pc, params, N, slopes, i, fitted, segvars, LLD,
                   err, warned>>

setY(data) ==
    /\ pc = "idle"
    /\ "y" \in unset
    /\ ydata' = data
    /\ unset' = unset \ {"y"}
    /\ UNCHANGED <<xdata, results, pc, params, N, slopes, i, fitted, segvars, LLD,
                   err, warned>>

(***************************************************************************)
(* slidingWindowFind, lines 112-113: N and the slope array.  len(None)     *)
(* raises TypeError, np.zeros of a negative length raises ValueError.      *)
(***************************************************************************)
Enter(W, cut) ==
    /\ pc = "idle"
    /\ WIN_SIZE' = W
    /\ FDEV_CUT' = cut
    /\ IF "x" \in unset
       THEN Raise("TypeError") /\ UNCHANGED <<N, slopes>>
       ELSE /\ N' = NumShifts(Len(xdata), W)
            /\ IF N' < 0
               THEN Raise("ValueError") /\ UNCHANGED slopes
               ELSE slopes' = Zeros(N') /\ pc' = "regress" /\ UNCHANGED err
    /\ i' = 0
    /\ UNCHANGED <<fields, results, fitted, segvars, LLD, warned>>

(***************************************************************************)
(* lines 116-122: one iteration of the regression loop.                    *)
(***************************************************************************)
RegressStep ==
    /\ pc = "regress"
    /\ i < N
    /\ LET WIN_START == i
           WIN_END   == WinEnd(WIN_START, WIN_SIZE)
       IN  IF "y" \in unset
           THEN Raise("TypeError") /\ UNCHANGED <<slopes, i, fitted, warned>>
           ELSE \E fit \in Polyfit(Slice(xdata, WIN_START, WIN_END),
                                   Slice(ydata, WIN_START, WIN_END)) :
                  /\ fitted' = SliceIdx(Len(xdata), WIN_START, WIN_END)
                  /\ warned' = warned \cup fit.warn
                  /\ IF fit.err # "none"
                     THEN Raise(fit.err) /\ UNCHANGED <<slopes, i>>
                     ELSE /\ slopes' = [slopes EXCEPT ![i + 1] = fit.slope]
                          /\ i' = i + 1
                          /\ UNCHANGED <<pc, err>>
    /\ UNCHANGED <<fields, results, params, N, segvars, LLD>>

(***************************************************************************)
(* lines 133-138: the first domain.  slopes[0] of an empty array raises    *)
(* IndexError.                                                             *)
(***************************************************************************)
SegInit ==
    /\ pc = "regress"
    /\ i >= N
    /\ IF N = 0
       THEN Raise("IndexError") /\ UNCHANGED <<segvars, i>>
       ELSE /\ currSlope' = At(slopes, 0)
            /\ currDomainID' = 0
            /\ domainIDs' = IntZeros(N)
            /\ domains' = <<>>
            /\ currDomain' = Domain(0, 0, 1, At(slopes, 0))
            /\ i' = 1
            /\ pc' = "segment"
            /\ UNCHANGED err
    /\ UNCHANGED <<fields, results, params, N, slopes, fitted, LLD, warned>>

(***************************************************************************)
(* lines 140-150: one iteration of the segmentation loop, either branch.   *)
(***************************************************************************)
SegExtend ==
    /\ pc = "segment"
    /\ i < N
    /\ WithinCut(At(slopes, i), currSlope, FDEV_CUT)
    /\ currDomain' = Extended(currDomain)
    /\ domainIDs' = [domainIDs EXCEPT ![i + 1] = currDomainID]
    /\ warned' = warned \cup DivWarnings(RAbs(RSub(At(slopes, i), currSlope)), currSlope)
    /\ i' = i + 1
    /\ UNCHANGED <<fields, results, params, N, slopes, fitted, currSlope,
                   currDomainID, domains, LLD, pc, err>>

SegNewDomain ==
    /\ pc = "segment"
    /\ i < N
    /\ ~WithinCut(At(slopes, i), currSlope, FDEV_CUT)
    /\ domains' = Append(domains, currDomain)
    /\ currSlope' = At(slopes, i)
    /\ currDomainID' = currDomainID + 1
    /\ currDomain' = NewDomain(currDomainID', i, currSlope')
    /\ domainIDs' = [domainIDs EXCEPT ![i + 1] = currDomainID']
    /\ warned' = warned \cup DivWarnings(RAbs(RSub(At(slopes, i), currSlope)), currSlope)
    /\ i' = i + 1
    /\ UNCHANGED <<fields, results, params, N, slopes, fitted, LLD, pc, err>>

\* line 152
SegFinish ==
    /\ pc = "segment"
    /\ i >= N
    /\ domains' = Append(domains, currDomain)
    /\ pc' = "segmented"
    /\ UNCHANGED <<fields, results, params, N, slopes, i, fitted, currSlope,
                   currDomainID, domainIDs, currDomain, LLD, err, warned>>

(***************************************************************************)
(* lines 161-165: the selection scan.                                      *)
(***************************************************************************)
SelectInit ==
    /\ pc = "segmented"
    /\ LLD' = At(domains, 0)
    /\ i' = 0
    /\ pc' = "select"
    /\ UNCHANGED <<fields, results, params, N, slopes, fitted, segvars, err, warned>>

SelectStep ==
    /\ pc = "select"
    /\ i < Len(domains)
    /\ LLD' = Better(LLD, At(domains, i))
    /\ i' = i + 1
    /\ UNCHANGED <<fields, results, params, N, slopes, fitted, segvars, pc, err, warned>>

SelectFinish ==
    /\ pc = "select"
    /\ i >= Len(domains)
    /\ self_LLD' = LLD
    /\ pc' = "refine"
    /\ UNCHANGED <<fields, self_slope, params, N, slopes, i, fitted, segvars, LLD,
                   err, warned>>

(***************************************************************************)
(* lines 168-171: the final fit over the points of the LLD.                *)
(***************************************************************************)
Refine ==
    /\ pc = "refine"
    /\ LET LLD_START == LLD.shift
           LLD_END   == LLDEnd(LLD, WIN_SIZE)
       IN  \E finalFit \in Polyfit(Slice(xdata, LLD_START, LLD_END),
                                   Slice(ydata, LLD_START, LLD_END)) :
              /\ fitted' = SliceIdx(Len(xdata), LLD_START, LLD_END)
              /\ warned' = warned \cup finalFit.warn
              /\ IF finalFit.err # "none"
                 THEN Raise(finalFit.err) /\ UNCHANGED self_slope
                 ELSE self_slope' = finalFit.slope /\ pc' = "done" /\ UNCHANGED err
    /\ UNCHANGED <<fields, self_LLD, params, N, slopes, i, segvars, LLD>>

Run ==
    \/ RegressStep
    \/ SegInit
    \/ SegExtend
    \/ SegNewDomain
    \/ SegFinish
    \/ SelectInit
    \/ SelectStep
    \/ SelectFinish
    \/ Refine

SetX == pc = "idle" /\ \E data \in XInputs : setX(data)

SetY == pc = "idle" /\ \E data \in YInputs : setY(data)

Call == pc = "idle" /\ \E W \in WinSizes, cut \in Cuts : Enter(W, cut)

Next == SetX \/ SetY \/ Call \/ Run

Spec == Init /\ [][Next]_vars

SetXSeg == pc = "idle" /\ \E data \in XInputsSeg : setX(data)

SetYSeg == pc = "idle" /\ \E data \in YInputsSeg : setY(data)

CallSeg == pc = "idle" /\ \E W \in WinSizesSeg, cut \in CutsSeg : Enter(W, cut)

NextSeg == SetXSeg \/ SetYSeg \/ CallSeg \/ Run

SpecSeg == Init /\ [][NextSeg]_vars

(***************************************************************************)
(* Lines 133-152 as a fold over a slope array: the domain list the         *)
(* segmentation loop builds from sl under threshold cut.                   *)
(***************************************************************************)
RECURSIVE SegFold(_, _, _, _, _)
SegFold(sl, cut, k, done, cur) ==
    IF k >= Len(sl) THEN Append(done, cur)
    ELSE IF WithinCut(At(sl, k), cur.slope, cut)
    THEN SegFold(sl, cut, k + 1, done, Extended(cur))
    ELSE SegFold(sl, cut, k + 1, Append(done, cur), NewDomain(cur.id + 1, k, At(sl, k)))

Segmented(sl, cut) == SegFold(sl, cut, 1, <<>>, Domain(0, 0, 1, At(sl, 0)))

(***************************************************************************)
(* Properties.                                                             *)
(***************************************************************************)
\* the segmentation loop has run to its end (line 152 executed)
SegDone == pc # "segment" /\ domains # <<>>

\* ds is a list of domains that tiles the offsets 0 .. upto-1 in order
Tiles(ds, upto) ==
    /\ Len(ds) >= 1
    /\ ds[1].shift = 0
    /\ \A k \in 1 .. Len(ds) : ds[k].size >= 1
    /\ \A k \in 1 .. (Len(ds) - 1) : ds[k].shift + ds[k].size = ds[k + 1].shift
    /\ ds[Len(ds)].shift + ds[Len(ds)].size = upto
    /\ SumTo([k \in 1 .. Len(ds) |-> ds[k].size], Len(ds)) = upto

\* the loop run as a fold gives the list the loop builds step by step
FoldIsLoop == SegDone => domains = Segmented(slopes, FDEV_CUT)

\* C1: the domains partition the offsets: the first starts at 0, every size
\* is at least 1, each ends where the next starts and the sizes sum to N;
\* after every loop step the finalized domains and the current one tile
\* the offsets processed so far.
C1_Partition ==
    /\ pc = "segment" => Tiles(Append(domains, currDomain), i)
    /\ SegDone => Tiles(domains, N)

C1_Witness ==
    /\ pc = "segmented"
    /\ Len(domains) >= 3
    /\ \E k \in 1 .. Len(domains) : domains[k].size >= 2

\* the thresholds explored that are at least the one of this call
LooserCuts == {c \in Cuts \cup CutsSeg : RLeq(Zero, FDEV_CUT) /\ RLeq(FDEV_CUT, c)}

AllPositive(sl) == \A k \in 1 .. Len(sl) : RLess(Zero, sl[k])

\* C2 as stated: a threshold at least as large never gives more domains
\* (stated on arrays of positive slopes, where the deviation is the
\* relative deviation |s - anchor| / |anchor|).
C2_MonotoneCount ==
    (SegDone /\ AllPositive(slopes)) =>
        \A c \in LooserCuts : Len(Segmented(slopes, c)) <= Len(domains)

\* C2 amended: a threshold at least as large never shrinks the first domain.
C2_MonotoneFirstDomain ==
    SegDone =>
        \A c \in LooserCuts : Segmented(slopes, c)[1].size >= domains[1].size

C2_Witness ==
    /\ pc = "segmented"
    /\ \E c \in LooserCuts :
          /\ Segmented(slopes, c)[1].size > domains[1].size
          /\ Len(Segmented(slopes, c)) > Len(domains)

\* the member offsets of domain d after its first
Members(d) == (d.shift + 1) .. (d.shift + d.size - 1)

\* |s - anchor| < cut * |anchor|
WithinTolerance(s, anchor, cut) ==
    RLess(RAbs(RSub(s, anchor)), RMul(cut, RAbs(anchor)))

\* C3: every member slope of a domain is within FDEV_CUT * |D.slope| of the
\* domain's slope, and the first slope of every later domain is not within
\* that tolerance of the previous domain's slope, whatever the signs.
C3_WithinTolerance ==
    (SegDone /\ RLeq(Zero, FDEV_CUT)) =>
        /\ \A k \in 1 .. Len(domains) : \A j \in Members(domains[k]) :
              WithinTolerance(At(slopes, j), domains[k].slope, FDEV_CUT)
        /\ \A k \in 2 .. Len(domains) :
              ~WithinTolerance(At(slopes, domains[k].shift), domains[k - 1].slope,
                               FDEV_CUT)

\* a deviation has been computed against an anchor slope of exactly zero
ZeroAnchorUsed ==
    \/ pc = "segment" /\
          \E d \in {currDomain} \cup {domains[k] : k \in 1 .. Len(domains)} :
              d.slope = Zero /\ d.shift + 1 < i
    \/ SegDone /\ \E k \in 1 .. Len(domains) :
              domains[k].slope = Zero /\ domains[k].shift + 1 < N

\* C8: once a deviation is computed against a zero anchor slope the call has
\* failed with ZeroAnchorDeviation: no segmentation goes on and no LLD or
\* slope is produced.
C8_ZeroAnchorAborts ==
    ZeroAnchorUsed => pc = "error" /\ err = "ZeroAnchorDeviation"

\* C4: the selected domain is one of the list; none is larger; none of its
\* size has a larger slope; among those equal in both it has the lowest id.
C4_Selection ==
    pc \in {"refine", "done"} =>
        /\ \E k \in 1 .. Len(domains) : domains[k] = self_LLD
        /\ \A k \in 1 .. Len(domains) :
              /\ domains[k].size <= self_LLD.size
              /\ domains[k].size = self_LLD.size =>
                    ~RLess(self_LLD.slope, domains[k].slope)
              /\ (domains[k].size = self_LLD.size /\ domains[k].slope = self_LLD.slope)
                    => self_LLD.id <= domains[k].id

C4_Witness ==
    /\ pc = "done"
    /\ self_LLD.id > 0
    /\ \E k \in 1 .. Len(domains) :
          /\ domains[k].id > self_LLD.id
          /\ domains[k].size = self_LLD.size
          /\ domains[k].slope = self_LLD.slope
    /\ \E k \in 1 .. Len(domains) :
          /\ domains[k].size = self_LLD.size
          /\ RLess(domains[k].slope, self_LLD.slope)

\* the k-th domain of ds has id k and the slope of its first offset
IdsAndAnchors(ds) ==
    \A k \in 1 .. Len(ds) :
        /\ ds[k].id = k - 1
        /\ ds[k].slope = At(slopes, ds[k].shift)

\* a loop step that only lengthens the current domain by one
ExtendsOnly ==
    /\ currDomain' = [currDomain EXCEPT !.size = currDomain.size + 1]
    /\ currSlope' = currSlope
    /\ currDomainID' = currDomainID
    /\ domains' = domains

\* a loop step that finalizes the current domain and starts the next one
StartsNew ==
    /\ domains' = Append(domains, currDomain)
    /\ currDomainID' = currDomainID + 1
    /\ currSlope' = At(slopes, i)
    /\ currDomain' = [id |-> currDomainID + 1, shift |-> i, size |-> 1,
                      slope |-> At(slopes, i)]

SegmentStep == pc = "segment" /\ pc' = "segment" /\ i' # i

ValidWindow ==
    /\ pc # "idle"
    /\ unset = {}
    /\ Len(xdata) = Len(ydata)
    /\ 2 <= WIN_SIZE
    /\ WIN_SIZE <= Len(xdata)

\* the slopes a fit of the points lo .. hi-1 of the series can return
FitOver(lo, hi) ==
    {f.slope : f \in {g \in Polyfit(SubSeq(xdata, lo + 1, hi), SubSeq(ydata, lo + 1, hi)) :
                        g.err = "none"}}

RegressionDone == pc \in {"segment", "segmented", "select", "refine"}

\* C7: with 2 <= W <= n the regression loop fills exactly N = n - W + 1
\* slopes, offset by offset in increasing order; the window fitted at offset
\* k is the W indices k .. k+W-1, all inside the series, the last window
\* ending at n - 1; no step faults.
C7_Windows ==
    /\ [](ValidWindow =>
            /\ N = Len(xdata) - WIN_SIZE + 1
            /\ Len(slopes) = N
            /\ pc # "error"
            /\ pc = "regress" =>
                  /\ i <= N
                  /\ i >= 1 => /\ fitted = (i - 1) .. (i + WIN_SIZE - 2)
                               /\ Cardinality(fitted) = WIN_SIZE
                               /\ fitted \subseteq 0 .. (Len(xdata) - 1)
                  /\ \A k \in 0 .. (i - 1) :
                        At(slopes, k) \in FitOver(k, k + WIN_SIZE)
                  /\ \A k \in i .. (N - 1) : At(slopes, k) = Zero
            /\ RegressionDone =>
                  /\ fitted = (N - 1) .. (Len(xdata) - 1)
                  /\ \A k \in 0 .. (N - 1) :
                        At(slopes, k) \in FitOver(k, k + WIN_SIZE))
    /\ [][(ValidWindow /\ pc = "regress" /\ pc' = "regress") =>
            /\ i' = i + 1
            /\ \A k \in 0 .. (N - 1) : k # i => At(slopes', k) = At(slopes, k)]_vars

C7_Witness ==
    /\ ValidWindow
    /\ pc = "segment"
    /\ N >= 2
    /\ WIN_SIZE >= 3
    /\ Len(xdata) = MaxN

\* the indices of the data read by the windows of domain d
WindowsOf(d) ==
    UNION {k .. (k + WIN_SIZE - 1) : k \in d.shift .. (d.shift + d.size - 1)}

\* C10: with 2 <= W <= n the end index shift + size + W of a domain is n + 1
\* for the last domain and at most n for every other; clipping removes at
\* most one index; the windows of a domain read shift .. shift+size+W-2,
\* and the refinement range of a domain that is not the last holds exactly
\* one index more.
C10_RefinementEnd ==
    (ValidWindow /\ SegDone) =>
        \A k \in 1 .. Len(domains) :
            LET d   == domains[k]
                n   == Len(xdata)
                end == d.shift + d.size + WIN_SIZE
                clipped == {j \in 0 .. (n - 1) : d.shift <= j /\ j < end}
            IN  /\ end <= n + 1
                /\ end = n + 1 <=> k = Len(domains)
                /\ end - Cardinality(clipped) - d.shift <= 1
                /\ WindowsOf(d) = d.shift .. (end - 2)
                /\ WindowsOf(d) \subseteq clipped
                /\ Cardinality(clipped \ WindowsOf(d)) = IF k = Len(domains) THEN 0 ELSE 1

C10_Witness ==
    /\ ValidWindow
    /\ pc = "done"
    /\ Len(domains) >= 2
    /\ domains[1].size >= 2

\* C5: the final fit reads exactly the indices s .. min(n, s+k+W) - 1 of the
\* series for the selected domain (shift s, size k): more than s .. s+k-1,
\* none at or beyond n, and the call does not fault when s+k+W exceeds n.
C5_RefinementRange ==
    ValidWindow =>
        /\ self_LLD # DomainClass => pc # "error"
        /\ pc = "done" =>
              LET s  == self_LLD.shift
                  k  == self_LLD.size
                  n  == Len(xdata)
                  hi == IF s + k + WIN_SIZE < n THEN s + k + WIN_SIZE ELSE n
              IN  /\ fitted = s .. (hi - 1)
                  /\ fitted # s .. (s + k - 1)
                  /\ fitted \subseteq 0 .. (n - 1)
                  /\ self_slope \in FitOver(s, hi)

C5_Witness ==
    /\ ValidWindow
    /\ pc = "done"
    /\ self_LLD.shift + self_LLD.size + WIN_SIZE > Len(xdata)
    /\ self_LLD.shift > 0

\* the configuration the call was made with is not a valid one
InvalidConfiguration ==
    /\ pc # "idle"
    /\ unset = {}
    /\ \/ WIN_SIZE < 2
       \/ WIN_SIZE > Len(xdata)
       \/ RLess(FDEV_CUT, Zero)
       \/ Len(xdata) # Len(ydata)
       \/ Len(xdata) = 0

\* C6: a call with an invalid configuration fails before any window is
\* fitted, any domain built or selected, and leaves self.LLD and self.slope
\* as they were (which exception reports the failure is left open here).
C6_FailFast ==
    InvalidConfiguration =>
        /\ pc \in {"regress", "error"}
        /\ i = 0
        /\ currDomain = DomainClass
        /\ domains = <<>>
        /\ self_LLD = DomainClass
        /\ self_slope = Zero

====
